---------------------------- MODULE Spec2Model ----------------------------
(* A model of control-panel.py: the main loop that takes one console      *)
(* event at a time from tty_queue, dispatches it to the screen graph or   *)
(* to the register-line handlers, recomputes the active stops and sends   *)
(* the note_on/note_off delta to the organ engine.                        *)
EXTENDS Integers, Sequences, FiniteSets, TLC

(* ------------------------------ bounds -------------------------------- *)

\* stop identifiers used on register lines are 1..MaxStop
MaxStop == 2

\* the distance from its default of the one selector (other than the
\* instrument, whose whole range is explored) that is edited at a time
MaxEdit == 1

(* ------------------- configuration (setup.toml) ----------------------- *)

StopIds == 1..MaxStop

\* organ.reed_stops
reed_stops == {2}

\* organ.manual_piston_setting
manual_piston == "M"

\* the value of the global `piston` before any `piston ...` line: None
None == "<None>"

\* user-settings.toml as found at startup: a combination of piston P2, and
\* one stored under "M" when "M" was not yet the manual piston
stored_at_startup == [p \in {"M", "P2"} |-> IF p = "M" THEN {2} ELSE {1}]

(* ------------------------------ screens ------------------------------- *)

chain == <<"instrument", "temperament", "piston_save", "transpose",
           "recorder", "met_bpm", "met_div", "met">>

Screens == {chain[i] : i \in 1..Len(chain)}

IntSelects == {"instrument", "temperament", "transpose", "met_bpm", "met_div"}

OnOffSelects == {"recorder", "met"}

reset_on_reload == {"temperament", "met_bpm", "met_div"}

Keys == {"LEFT", "DOWN", "UP", "RIGHT"}

default ==
  [s \in IntSelects |->
     CASE s = "instrument"  -> 0
       [] s = "temperament" -> 1
       [] s = "transpose"   -> 0
       [] s = "met_bpm"     -> 80
       [] s = "met_div"     -> 4]

minimum ==
  [s \in IntSelects |->
     CASE s = "instrument"  -> 0
       [] s = "temperament" -> 0
       [] s = "transpose"   -> -11
       [] s = "met_bpm"     -> 1
       [] s = "met_div"     -> 0]

maximum ==
  [s \in IntSelects |->
     CASE s = "instrument"  -> 1
       [] s = "temperament" -> 8
       [] s = "transpose"   -> 11
       [] s = "met_bpm"     -> 500
       [] s = "met_div"     -> 32]

stride == [s \in IntSelects |-> 1]

\* the AntonijnSysexEvent sent by each selector's on_update
update_event ==
  [s \in IntSelects |->
     CASE s = "instrument"  -> "INSTRUMENT"
       [] s = "temperament" -> "TEMPERAMENT"
       [] s = "transpose"   -> "TRANSPOSE"
       [] s = "met_bpm"     -> "METRONOME_BPM"
       [] s = "met_div"     -> "METRONOME_MEASURE"]

on_msg ==
  [s \in OnOffSelects |->
     IF s = "recorder" THEN "GRANDORGUE_START_RECORDING"
                       ELSE "GRANDORGUE_START_METRONOME"]

off_msg ==
  [s \in OnOffSelects |->
     IF s = "recorder" THEN "GRANDORGUE_STOP_RECORDING"
                       ELSE "GRANDORGUE_STOP_METRONOME"]

Index(s) == CHOOSE i \in 1..Len(chain) : chain[i] = s

\* chain_screens: screens[i-1].adjacent[RIGHT] = screens[i],
\*                screens[i].adjacent[LEFT] = screens[i-1]
HasAdjacent(s, key) ==
  \/ key = "RIGHT" /\ Index(s) < Len(chain)
  \/ key = "LEFT"  /\ Index(s) > 1

\* a mutant of Adjacent: the chain is closed into a ring
Adjacent_ring(s, key) ==
  IF key = "RIGHT" THEN chain[(Index(s) % Len(chain)) + 1]
  ELSE IF key = "LEFT" THEN chain[((Index(s) + Len(chain) - 2) % Len(chain)) + 1]
  ELSE s

\* self.adjacent.get(key, self)
Adjacent(s, key) ==
  IF HasAdjacent(s, key)
    THEN IF key = "RIGHT" THEN chain[Index(s) + 1] ELSE chain[Index(s) - 1]
    ELSE s

Max(a, b) == IF a >= b THEN a ELSE b

Min(a, b) == IF a <= b THEN a ELSE b


(* --------------------------- console events --------------------------- *)

\* A dequeued command is modelled by its words (cmd.strip().split(' ')),
\* each word by its comma-separated tokens (word.split(',')).
W(t) == <<t>>

\* decimal numerals of the stop identifiers
numeral == <<"1", "2", "3", "4">>

\* int(s): defined on numerals, ValueError on anything else
IsInt(tok) == \E i \in 1..Len(numeral) : numeral[i] = tok

int(tok) == CHOOSE i \in 1..Len(numeral) : numeral[i] = tok

\* keymap of main(): escape sequence -> Key
keymap ==
  [c \in {<<W("ESC[A")>>, <<W("ESC[B")>>, <<W("ESC[C")>>, <<W("ESC[D")>>} |->
     CASE c = <<W("ESC[A")>> -> "UP"
       [] c = <<W("ESC[B")>> -> "DOWN"
       [] c = <<W("ESC[C")>> -> "RIGHT"
       [] c = <<W("ESC[D")>> -> "LEFT"]

KeyCmds == DOMAIN keymap

\* the value of `cmd` while the main loop waits in tty_queue.get()
NoCmd == <<>>

\* b'sleep\n', put on the queue by read_arrow_keys on a timeout
SleepCmd == <<W("sleep")>>

StopLine(onoff, ids) == <<W("stop"), W(onoff), ids>>

PistonLine(name) == <<W("piston"), W(name)>>

ReedsOn == <<W("reeds"), W("on")>>

ReedsOff == <<W("reeds"), W("off")>>

\* `stop on 1`, `stop off 2`, ...
SingleStopLines ==
  {StopLine(o, W(numeral[i])) : o \in {"on", "off"}, i \in StopIds}

\* `stop on 1,2` and `stop on 1 off 2`
MultiStopLines ==
  { StopLine("on", <<numeral[1], numeral[MaxStop]>>),
    StopLine("on", W(numeral[1])) \o <<W("off"), W(numeral[MaxStop])>> }

WellFormedStopLines == SingleStopLines \cup MultiStopLines

\* malformed lines whose first on/off pair is the malformed one
\*   halt on 1 | stop on | stop on x | stop toggle 1 | stop on 1,x
MalformedAtStart ==
  { <<W("halt"), W("on"), W("1")>>,
    <<W("stop"), W("on")>>,
    StopLine("on", W("x")),
    StopLine("toggle", W("1")),
    StopLine("on", <<"1", "x">>) }

\* malformed lines whose malformed token follows a well-formed on/off pair
\*   stop on 1 toggle 2 | stop off 1 on x
MalformedLater ==
  { StopLine("on", W("1")) \o <<W("toggle"), W("2")>>,
    StopLine("off", W("1")) \o <<W("on"), W("x")>> }

MalformedLines == MalformedAtStart \cup MalformedLater

PistonLines == {PistonLine(manual_piston), PistonLine("P1")}

WellFormedLines == WellFormedStopLines \cup PistonLines \cup {ReedsOn, ReedsOff}

RegLines == WellFormedLines \cup MalformedLines

Cmds == KeyCmds \cup {SleepCmd} \cup RegLines

\* cmd.startswith(prefix + ' ')
StartsWith(cmd, verb) == Len(cmd) >= 2 /\ cmd[1] = W(verb)

(* ------------------------ update_stop_selection ----------------------- *)

\* {int(s) for s in words[i + 1].split(',')}
ParsedStops(word) == {int(word[j]) : j \in 1..Len(word)}

AllInts(word) == \A j \in 1..Len(word) : IsInt(word[j])

\* a mutant of StopPairs: `on` toggles the stops instead of adding them
RECURSIVE StopPairs_toggle(_, _, _)
StopPairs_toggle(words, i, sel) ==
  IF i > Len(words) THEN [selected_stops |-> sel, raised |-> FALSE]
  ELSE IF ~AllInts(words[i + 1]) THEN [selected_stops |-> sel, raised |-> TRUE]
  ELSE IF words[i] = W("on")
    THEN StopPairs_toggle(words, i + 2,
                          (sel \ ParsedStops(words[i + 1]))
                            \cup (ParsedStops(words[i + 1]) \ sel))
  ELSE IF words[i] = W("off")
    THEN StopPairs_toggle(words, i + 2, sel \ ParsedStops(words[i + 1]))
  ELSE [selected_stops |-> sel, raised |-> TRUE]

\* the loop `for i in range(1, len(words), 2)` from index i on (i is the
\* 1-based position of the on/off word); selected_stops is updated in place,
\* pair by pair, until the loop ends or a ValueError is raised
RECURSIVE StopPairs(_, _, _)
StopPairs(words, i, sel) ==
  IF i > Len(words) THEN [selected_stops |-> sel, raised |-> FALSE]
  ELSE IF ~AllInts(words[i + 1]) THEN [selected_stops |-> sel, raised |-> TRUE]
  ELSE IF words[i] = W("on")
    THEN StopPairs(words, i + 2, sel \cup ParsedStops(words[i + 1]))
  ELSE IF words[i] = W("off")
    THEN StopPairs(words, i + 2, sel \ ParsedStops(words[i + 1]))
  ELSE [selected_stops |-> sel, raised |-> TRUE]

update_stop_selection(cmd, sel) ==
  IF cmd[1] # W("stop") THEN [selected_stops |-> sel, raised |-> TRUE]
  ELSE IF Len(cmd) % 2 # 1 THEN [selected_stops |-> sel, raised |-> TRUE]
  ELSE StopPairs(cmd, 2, sel)


(* ------------------------------- state -------------------------------- *)

VARIABLES
  active_screen,      \* the screen that receives the keys
  value,              \* IntSelect.value of every selector
  active,             \* IntSelect.active / OnOffSelect.active of every screen that has it
  screen_asleep,      \* main(): the display is blanked
  selected_stops,     \* stops turned on by register lines
  active_stops,       \* stops the engine was told to sound
  prev_active_stops,  \* main(): active_stops as they were before the recomputation
  piston,             \* the current piston, None before the first `piston` line
  reed_cutoff,        \* the reed-cutoff flag
  piston_settings,    \* piston memory: piston name -> set of stops
  user_settings,      \* contents of user-settings.toml
  cmd,                \* main(): the command dequeued last
  sent,               \* messages given to mdevice in the last event cycle, in order
  display,            \* what the last event cycle wrote to the display, in order
  saved,              \* save_user_settings() was called in the last event cycle
  logged,             \* the last event cycle caught and printed an exception
  running,            \* the main loop has not been left by an exception
  engine_stops,       \* the engine: stops whose last message was a note_on
  engine_toggle,      \* the engine: the toggle's last message was an enter
  keypad_buf,         \* input buffer of display_inport: keys typed, not yet read
  reg_buf,            \* input buffer of reg_inport: lines arrived, not yet read
  tty_queue,          \* tty_queue: the commands put and not yet got
  pc,                 \* where main() is: in the loop or inside wait_for_ready
  cur,                \* the queue item whose command `cmd` is
  flushed,            \* what the last reset_input_buffer() discarded
  applied,            \* put numbers of the items got so far, in the order got
  inputs,             \* number of console inputs so far
  codec_in,           \* midi_message: the event kind and value to encode
  codec_out           \* midi_message: the payload produced

vars == <<active_screen, value, active, screen_asleep, selected_stops,
          active_stops, prev_active_stops, piston, reed_cutoff,
          piston_settings, user_settings, cmd, sent, display, saved, logged,
          running, engine_stops, engine_toggle, keypad_buf, reg_buf,
          tty_queue, pc, cur, flushed, applied, inputs, codec_in, codec_out>>

\* the variables of the two reader tasks, the devices and the queue
queue_vars ==
  <<keypad_buf, reg_buf, tty_queue, pc, cur, flushed, applied, inputs>>

\* the variables of the protocol codec
codec_vars == <<codec_in, codec_out>>

\* the state as one record, the form the handlers below work on
State ==
  [active_screen |-> active_screen, value |-> value, active |-> active,
   screen_asleep |-> screen_asleep, selected_stops |-> selected_stops,
   active_stops |-> active_stops, prev_active_stops |-> prev_active_stops,
   piston |-> piston, reed_cutoff |-> reed_cutoff,
   piston_settings |-> piston_settings, user_settings |-> user_settings,
   cmd |-> cmd, sent |-> sent, display |-> display, saved |-> saved,
   logged |-> logged, running |-> running]

(* --------------------------- protocol codec --------------------------- *)

\* class AntonijnSysexEvent(IntEnum): the code of each event kind
event_code ==
  [e \in {"TRANSPOSE", "TEMPERAMENT", "TUNING", "INSTRUMENT", "METRONOME_BPM",
          "METRONOME_MEASURE", "GRANDORGUE_READY", "GRANDORGUE_GAIN",
          "GRANDORGUE_POLYPHONY", "GRANDORGUE_START_RECORDING",
          "GRANDORGUE_STOP_RECORDING", "GRANDORGUE_START_METRONOME",
          "GRANDORGUE_STOP_METRONOME"} |->
     CASE e = "TRANSPOSE"                  -> 1
       [] e = "TEMPERAMENT"                -> 2
       [] e = "TUNING"                     -> 3
       [] e = "INSTRUMENT"                 -> 4
       [] e = "METRONOME_BPM"              -> 5
       [] e = "METRONOME_MEASURE"          -> 6
       [] e = "GRANDORGUE_READY"           -> 256
       [] e = "GRANDORGUE_GAIN"            -> 257
       [] e = "GRANDORGUE_POLYPHONY"       -> 258
       [] e = "GRANDORGUE_START_RECORDING" -> 321
       [] e = "GRANDORGUE_STOP_RECORDING"  -> 322
       [] e = "GRANDORGUE_START_METRONOME" -> 323
       [] e = "GRANDORGUE_STOP_METRONOME"  -> 324]

\* the characters of 'JOHANNUSANTONIJN'
Tag ==
  <<"J", "O", "H", "A", "N", "N", "U", "S",
    "A", "N", "T", "O", "N", "I", "J", "N">>

\* the digits of the presentation type 'x'
HexDigits ==
  <<"0", "1", "2", "3", "4", "5", "6", "7",
    "8", "9", "a", "b", "c", "d", "e", "f">>

\* format(n, 'x') for n >= 0: as many digits as n needs
RECURSIVE hex(_)
hex(n) ==
  IF n < 16 THEN <<HexDigits[n + 1]>>
  ELSE Append(hex(n \div 16), HexDigits[(n % 16) + 1])

\* zero fill on the left up to width w; a longer string is left as it is
RECURSIVE zfill(_, _)
zfill(digits, w) ==
  IF Len(digits) >= w THEN digits ELSE zfill(<<"0">> \o digits, w)

\* f'{n:04x}': at least 4 characters, the sign of a negative n being one
format_04x(n) ==
  IF n < 0 THEN <<"-">> \o zfill(hex(-n), 3) ELSE zfill(hex(n), 4)

\* 0x10000, what midi_message adds to a negative value
wraparound == 65536

\* a mutant of midi_message: a negative value is formatted as it is
midi_message_signed(event, v) ==
  Tag \o format_04x(event_code[event]) \o format_04x(v)

\* AntonijnSysexEvent.<event>.midi_message(value): the characters of s
midi_message(event, v) ==
  LET v16 == IF v < 0 THEN wraparound + v ELSE v
  IN Tag \o format_04x(event_code[event]) \o format_04x(v16)

(* ------------------------------ outputs ------------------------------- *)

\* AntonijnSysexEvent.<event>.midi_message(value), given to mdevice.send
Sysex(event, v) ==
  [type |-> "sysex", event |-> event, value |-> v, on |-> {}, off |-> {}]

\* the note_on and note_off messages of one send_stops call (one message
\* per stop; the order inside the call is the set's iteration order)
Notes(on, off) ==
  [type |-> "notes", event |-> "", value |-> 0, on |-> on, off |-> off]

\* wait_for_ready: mdevice.receive() until GRANDORGUE_READY arrives
ReadyReceived ==
  [type |-> "ready", event |-> "GRANDORGUE_READY", value |-> 0,
   on |-> {}, off |-> {}]

Send(st, msg) == [st EXCEPT !.sent = Append(@, msg)]

\* an instrument message is among msgs
InstrumentMessageIn(msgs) ==
  \E i \in 1..Len(msgs) : msgs[i].type = "sysex" /\ msgs[i].event = "INSTRUMENT"

\* two display_outport_writeln calls: what is drawn, for which screen, and
\* the second line of the combination-save screen
Draw(st, what, screen, prompt) ==
  [st EXCEPT !.display =
     Append(@, [what |-> what, screen |-> screen, prompt |-> prompt])]

(* ------------------------------ screens ------------------------------- *)

\* PistonSaveScreen.can_save
can_save(st) == st.piston # None /\ st.piston # manual_piston

\* second line drawn by PistonSaveScreen.redraw
SavePrompt(st) ==
  IF ~can_save(st) THEN ""
  ELSE IF st.piston \in DOMAIN st.piston_settings
          /\ st.piston_settings[st.piston] = st.selected_stops
    THEN "opgeslagen"
  ELSE "OPSLAAN?"

\* <screen>.redraw()
redraw(st, s) ==
  Draw(st, "redraw", s, IF s = "piston_save" THEN SavePrompt(st) ELSE "")

\* <screen>.should_redraw()
should_redraw(s) == s = "piston_save"

\* Screen.process_key
Screen_process_key(st, key) ==
  LET new_screen == Adjacent(st.active_screen, key) IN
    IF st.active_screen # new_screen
      THEN redraw([st EXCEPT !.active_screen = new_screen], new_screen)
      ELSE st

\* a mutant of send_stops: a message for every stop of either set, changed or not
send_stops_resend(st, prev) ==
  LET on  == st.active_stops
      off == prev \ st.active_stops
  IN IF on \cup off = {} THEN st ELSE Send(st, Notes(on, off))

\* a mutant of send_stops: a stop that ceased to be active gets no note_off
send_stops_on_only(st, prev) ==
  LET on == st.active_stops \ prev
  IN IF on = {} THEN st ELSE Send(st, Notes(on, {}))

\* send_stops(prev_active_stops)
send_stops(st, prev) ==
  LET diff == (st.active_stops \ prev) \cup (prev \ st.active_stops)
      on   == diff \cap st.active_stops
      off  == diff \ st.active_stops
  IN IF diff = {} THEN st ELSE Send(st, Notes(on, off))

\* wait_for_ready
wait_for_ready(st) ==
  Send(Draw(st, "Laden...", "", ""), ReadyReceived)

\* a mutant of reset_screens: every selector but the instrument is reset
reset_screens_every(st) ==
  [st EXCEPT !.value =
     [s \in IntSelects |-> IF s # "instrument" THEN default[s] ELSE @[s]]]

\* IntSelect.reset of every screen in reset_on_reload
reset_screens(st) ==
  [st EXCEPT !.value =
     [s \in IntSelects |-> IF s \in reset_on_reload THEN default[s] ELSE @[s]]]

on_instrument_update(st, v) ==
  send_stops(reset_screens(wait_for_ready(Send(st, Sysex("INSTRUMENT", v)))), {})

\* self.on_update(new_value)
on_update(st, s, v) ==
  IF s = "instrument" THEN on_instrument_update(st, v)
  ELSE Send(st, Sysex(update_event[s], v))

\* a mutant of new_value: the value is not clamped to [minimum, maximum]
new_value_unclamped(s, v, key) ==
  CASE key = "LEFT"  -> v - stride[s]
    [] key = "RIGHT" -> v + stride[s]
    [] OTHER         -> v

\* the new value chosen by IntSelect.process_key in editing mode
new_value(s, v, key) ==
  CASE key = "LEFT"  -> Max(v - stride[s], minimum[s])
    [] key = "RIGHT" -> Min(v + stride[s], maximum[s])
    [] OTHER         -> v

IntSelect_process_key(st, key) ==
  LET s == st.active_screen IN
    IF st.active[s]
      THEN LET nv  == new_value(s, st.value[s], key)
               st1 == IF key = "UP"
                        THEN redraw([st EXCEPT !.active[s] = FALSE], s)
                        ELSE st
           IN IF st.value[s] # nv
                THEN redraw(on_update([st1 EXCEPT !.value[s] = nv], s, nv), s)
                ELSE st1
      ELSE IF key \in {"LEFT", "RIGHT"} THEN Screen_process_key(st, key)
      ELSE IF key = "DOWN" THEN redraw([st EXCEPT !.active[s] = TRUE], s)
      ELSE st

\* a mutant of OnOffSelect.process_key: DOWN sends the enter message whether
\* the toggle is active or not
OnOffSelect_process_key_again(st, key) ==
  LET s == st.active_screen IN
    IF key = "DOWN"
      THEN redraw(Send([st EXCEPT !.active[s] = TRUE], Sysex(on_msg[s], 0)), s)
    ELSE IF st.active[s]
      THEN IF key = "UP"
             THEN redraw(Send([st EXCEPT !.active[s] = FALSE],
                              Sysex(off_msg[s], 0)), s)
             ELSE st
      ELSE IF key \in {"LEFT", "RIGHT"} THEN Screen_process_key(st, key)
      ELSE st

\* a mutant of OnOffSelect.process_key: LEFT and RIGHT navigate while the
\* toggle is active too
OnOffSelect_process_key_leave(st, key) ==
  LET s == st.active_screen IN
    IF key \in {"LEFT", "RIGHT"} THEN Screen_process_key(st, key)
    ELSE IF st.active[s]
      THEN IF key = "UP"
             THEN redraw(Send([st EXCEPT !.active[s] = FALSE],
                              Sysex(off_msg[s], 0)), s)
             ELSE st
      ELSE IF key = "DOWN"
        THEN redraw(Send([st EXCEPT !.active[s] = TRUE], Sysex(on_msg[s], 0)), s)
      ELSE st

OnOffSelect_process_key(st, key) ==
  LET s == st.active_screen IN
    IF st.active[s]
      THEN IF key = "UP"
             THEN redraw(Send([st EXCEPT !.active[s] = FALSE],
                              Sysex(off_msg[s], 0)), s)
             ELSE st
      ELSE IF key \in {"LEFT", "RIGHT"} THEN Screen_process_key(st, key)
      ELSE IF key = "DOWN"
        THEN redraw(Send([st EXCEPT !.active[s] = TRUE], Sysex(on_msg[s], 0)), s)
      ELSE st

\* a mutant of StoreSnapshot: the memory is replaced by the one new entry
StoreSnapshot_only(settings, p, stops) == [q \in {p} |-> stops]

\* piston_settings[piston] = selected_stops.copy()
StoreSnapshot(settings, p, stops) ==
  [q \in DOMAIN settings \cup {p} |-> IF q = p THEN stops ELSE settings[q]]

\* save_user_settings
save_user_settings(st) ==
  [st EXCEPT !.user_settings = st.piston_settings, !.saved = TRUE]

PistonSaveScreen_process_key(st, key) ==
  IF key \in {"LEFT", "RIGHT"} THEN Screen_process_key(st, key)
  ELSE IF key = "DOWN" /\ can_save(st)
    THEN redraw(save_user_settings(
                  [st EXCEPT !.piston_settings =
                     StoreSnapshot(@, st.piston, st.selected_stops)]),
                "piston_save")
  ELSE st

\* active_screen.process_key(key)
process_key(st, key) ==
  IF st.active_screen \in IntSelects THEN IntSelect_process_key(st, key)
  ELSE IF st.active_screen \in OnOffSelects THEN OnOffSelect_process_key(st, key)
  ELSE PistonSaveScreen_process_key(st, key)


(* ------------------------------ main loop ----------------------------- *)

\* a mutant of Catches: the handler catches IndexError only
Catches_IndexError(exc) == exc = "IndexError"

\* `except Exception as inst`: the exceptions the handler of main() catches
Catches(exc) == exc \in {"ValueError", "IndexError", "Exception"}

\* a mutant of reeds_line: the two lines set the flag the other way round
reeds_line_swapped(st, c) ==
  IF c = ReedsOn THEN [st EXCEPT !.reed_cutoff = TRUE]
  ELSE IF c = ReedsOff THEN [st EXCEPT !.reed_cutoff = FALSE]
  ELSE st

\* lines 454-457: `reeds on` and `reeds off`; any other line changes nothing
reeds_line(st, c) ==
  IF c = ReedsOn THEN [st EXCEPT !.reed_cutoff = FALSE]
  ELSE IF c = ReedsOff THEN [st EXCEPT !.reed_cutoff = TRUE]
  ELSE st

\* the body of `try:` for a register line; exc is the exception it raises
\* ("" when it raises none)
try_register_line(st, c) ==
  IF StartsWith(c, "stop")
    THEN LET r == update_stop_selection(c, st.selected_stops) IN
           [st  |-> [st EXCEPT !.selected_stops = r.selected_stops],
            exc |-> IF r.raised THEN "ValueError" ELSE ""]
  ELSE IF StartsWith(c, "piston")
    THEN [st |-> [st EXCEPT !.piston = c[2][1]], exc |-> ""]
  ELSE [st |-> reeds_line(st, c), exc |-> ""]

\* a mutant of dispatch: a key that wakes the screen is also forwarded to
\* the current screen
dispatch_forward(st, c) ==
  IF c = SleepCmd
    THEN [Draw(st, "blank", "", "") EXCEPT !.screen_asleep = TRUE]
  ELSE IF c \in DOMAIN keymap
    THEN IF st.screen_asleep
           THEN process_key([redraw(st, st.active_screen)
                               EXCEPT !.screen_asleep = FALSE], keymap[c])
           ELSE process_key(st, keymap[c])
  ELSE LET t == try_register_line(st, c) IN
         IF t.exc = "" THEN t.st
         ELSE IF Catches(t.exc) THEN [t.st EXCEPT !.logged = TRUE]
         ELSE [t.st EXCEPT !.running = FALSE]

\* lines 434-459: the dispatch of one dequeued command
dispatch(st, c) ==
  IF c = SleepCmd
    THEN [Draw(st, "blank", "", "") EXCEPT !.screen_asleep = TRUE]
  ELSE IF c \in DOMAIN keymap
    THEN IF st.screen_asleep
           THEN [redraw(st, st.active_screen) EXCEPT !.screen_asleep = FALSE]
           ELSE process_key(st, keymap[c])
  ELSE LET t == try_register_line(st, c) IN
         IF t.exc = "" THEN t.st
         ELSE IF Catches(t.exc) THEN [t.st EXCEPT !.logged = TRUE]
         ELSE [t.st EXCEPT !.running = FALSE]

\* a mutant of compute_active: the reed cutoff is applied to the manual
\* selection only, not to a recalled combination
compute_active_cut_selected(st) ==
  IF st.piston = manual_piston \/ st.piston \notin DOMAIN st.piston_settings
    THEN IF st.reed_cutoff THEN st.selected_stops \ reed_stops
                           ELSE st.selected_stops
    ELSE st.piston_settings[st.piston]

\* a mutant of compute_active: the test for the manual piston is missing
compute_active_no_manual(st) ==
  LET chosen == IF st.piston \notin DOMAIN st.piston_settings
                  THEN st.selected_stops
                  ELSE st.piston_settings[st.piston]
  IN IF st.reed_cutoff THEN chosen \ reed_stops ELSE chosen

\* lines 463-469: the active stops as main() recomputes them
compute_active(st) ==
  LET chosen == IF st.piston = manual_piston
                   \/ st.piston \notin DOMAIN st.piston_settings
                  THEN st.selected_stops
                  ELSE st.piston_settings[st.piston]
  IN IF st.reed_cutoff THEN chosen \ reed_stops ELSE chosen

\* lines 461-474: what follows the dispatch in every iteration
end_of_cycle(st) ==
  LET st1 == [st EXCEPT !.prev_active_stops = st.active_stops,
                        !.active_stops = compute_active(st)]
      st2 == send_stops(st1, st1.prev_active_stops)
  IN IF ~st2.screen_asleep /\ should_redraw(st2.active_screen)
       THEN redraw(st2, st2.active_screen)
       ELSE st2

\* one iteration of `while True:` on the dequeued command c
main_loop(st, c) ==
  LET st0 == [st EXCEPT !.cmd = c, !.sent = <<>>, !.display = <<>>,
                        !.saved = FALSE, !.logged = FALSE]
      st1 == dispatch(st0, c)
  IN IF st1.running THEN end_of_cycle(st1) ELSE st1

Abs(n) == IF n < 0 THEN -n ELSE n

\* the selectors, other than the instrument, whose value is not the default
Edited(st) ==
  {s \in IntSelects \ {"instrument"} : st.value[s] # default[s]}

\* the states explored: one selector at a time is away from its default, by
\* at most MaxEdit (the instrument's whole range is explored)
Explored(st) ==
  /\ \A s, t \in Edited(st) : s = t
  /\ \A s \in Edited(st) : Abs(st.value[s] - default[s]) <= MaxEdit

\* no queue item: the loop has not got one yet
NoItem ==
  [cmd |-> NoCmd, from |-> "", during_wait |-> FALSE, a |-> 0, n |-> 0]

\* nothing was given to midi_message yet
NoValue == [event |-> "", value |-> 0]

\* the engine's stops after it received the note messages among msgs: a
\* note_on switches a stop on, a note_off switches it off
RECURSIVE heard_stops(_, _)
heard_stops(stops, msgs) ==
  IF msgs = <<>> THEN stops
  ELSE heard_stops((stops \cup Head(msgs).on) \ Head(msgs).off, Tail(msgs))

\* whether the last message the engine received for each toggle is an enter
\* message, after msgs
RECURSIVE heard_toggle(_, _)
heard_toggle(last, msgs) ==
  IF msgs = <<>> THEN last
  ELSE heard_toggle(
         [t \in OnOffSelects |->
            IF Head(msgs).type = "sysex" /\ Head(msgs).event = on_msg[t]
              THEN TRUE
            ELSE IF Head(msgs).type = "sysex" /\ Head(msgs).event = off_msg[t]
              THEN FALSE
            ELSE last[t]],
         Tail(msgs))

\* mdevice.send: the engine receives msgs
Hear(msgs) ==
  /\ engine_stops' = heard_stops(engine_stops, msgs)
  /\ engine_toggle' = heard_toggle(engine_toggle, msgs)

\* the program's variables take the values of the record nx
Apply(nx) ==
  /\ active_screen' = nx.active_screen
  /\ value' = nx.value
  /\ active' = nx.active
  /\ screen_asleep' = nx.screen_asleep
  /\ selected_stops' = nx.selected_stops
  /\ active_stops' = nx.active_stops
  /\ prev_active_stops' = nx.prev_active_stops
  /\ piston' = nx.piston
  /\ reed_cutoff' = nx.reed_cutoff
  /\ piston_settings' = nx.piston_settings
  /\ user_settings' = nx.user_settings
  /\ cmd' = nx.cmd
  /\ sent' = nx.sent
  /\ display' = nx.display
  /\ saved' = nx.saved
  /\ logged' = nx.logged
  /\ running' = nx.running

Init ==
  /\ active_screen = "instrument"
  /\ value = default
  /\ active = [s \in IntSelects \cup OnOffSelects |-> FALSE]
  /\ screen_asleep = FALSE
  /\ selected_stops = {}
  /\ active_stops = {}
  /\ prev_active_stops = {}
  /\ piston = None
  /\ reed_cutoff = FALSE
  /\ piston_settings = stored_at_startup
  /\ user_settings = stored_at_startup
  /\ cmd = NoCmd
  /\ sent = <<>>
  /\ display = <<>>
  /\ saved = FALSE
  /\ logged = FALSE
  /\ running = TRUE
  /\ engine_stops = {}
  /\ engine_toggle = [t \in OnOffSelects |-> FALSE]
  /\ keypad_buf = <<>>
  /\ reg_buf = <<>>
  /\ tty_queue = <<>>
  /\ pc = "loop"
  /\ cur = NoItem
  /\ flushed = <<>>
  /\ applied = <<>>
  /\ inputs = 0
  /\ codec_in = NoValue
  /\ codec_out = <<>>

(* ------------- the reader tasks, the devices and the queue ------------ *)

\* the number of console inputs (keys, lines, idle timeouts) in a run
MaxInputs == 4

\* the register line `sleep\n`: the bytes read_arrow_keys puts on a timeout
SleepLine == <<W("sleep")>>

\* the register line `\x1b[B\n`: the bytes of DOWN and the newline that
\* readline_async keeps (`cmd in keymap` compares the whole command)
EscapeLine == <<W("ESC[B\n")>>

\* the keys typed in this specification
QueueKeys == KeyCmds

\* the lines the register device sends in this specification
QueueLines == {StopLine("on", W(numeral[1])), SleepLine, EscapeLine}

\* a mutant of queue_get: the newest item is returned
queue_get_newest(q) ==
  [item |-> q[Len(q)], rest |-> SubSeq(q, 1, Len(q) - 1)]

\* tty_queue.get(): the oldest item, and the queue without it
queue_get(q) == [item |-> Head(q), rest |-> Tail(q)]

\* tty_queue.put(cmd) by a reader task, of what it read from its device
queue_put(q, from, entry) ==
  Append(q, [cmd |-> entry.cmd, from |-> from,
             during_wait |-> entry.during_wait, a |-> entry.a,
             n |-> Len(applied) + Len(q) + 1])

\* a mutant of reset_input_buffer: nothing is discarded
reset_input_buffer_nothing(buf) == buf

\* display_inport.reset_input_buffer()
reset_input_buffer(buf) == <<>>

\* the messages sent before the first ReadyReceived of msgs
RECURSIVE before_ready(_)
before_ready(msgs) ==
  IF msgs = <<>> \/ Head(msgs) = ReadyReceived THEN <<>>
  ELSE <<Head(msgs)>> \o before_ready(Tail(msgs))

\* the iteration whose whole effect is nx has stopped in mdevice.receive():
\* the new instrument value is stored (line 164), the instrument message is
\* sent and 'Laden...' is shown; nothing else was done
blocked_in_receive(st, nx) ==
  Draw([st EXCEPT !.cmd = nx.cmd,
                  !.value["instrument"] = nx.value["instrument"],
                  !.sent = before_ready(nx.sent),
                  !.display = <<>>,
                  !.saved = FALSE,
                  !.logged = FALSE],
       "Laden...", "", "")

\* a mutant of resume: the active stops are resent against themselves
resume_delta(st) ==
  end_of_cycle(
    redraw(send_stops(reset_screens(Send(st, ReadyReceived)), st.active_stops),
           "instrument"))

\* mdevice.receive() returned the ready message: the rest of wait_for_ready,
\* of on_instrument_update, of IntSelect.process_key and of the iteration
resume(st) ==
  end_of_cycle(
    redraw(send_stops(reset_screens(Send(st, ReadyReceived)), {}),
           "instrument"))

\* a key is typed: its bytes wait in the keypad's input buffer
KeyTyped ==
  /\ inputs < MaxInputs
  /\ \E k \in QueueKeys :
       keypad_buf' =
         Append(keypad_buf, [cmd |-> k, during_wait |-> pc = "wait_for_ready",
                             a |-> inputs + 1])
  /\ inputs' = inputs + 1
  /\ UNCHANGED <<reg_buf, tty_queue, pc, cur, flushed, applied>>
  /\ UNCHANGED <<active_screen, value, active, screen_asleep, selected_stops,
                 active_stops, prev_active_stops, piston, reed_cutoff,
                 piston_settings, user_settings, cmd, sent, display, saved,
                 logged, running, engine_stops, engine_toggle>>
  /\ UNCHANGED codec_vars

\* the register device sends a line: it waits in that device's input buffer
LineArrives ==
  /\ inputs < MaxInputs
  /\ \E l \in QueueLines :
       reg_buf' =
         Append(reg_buf, [cmd |-> l, during_wait |-> pc = "wait_for_ready",
                          a |-> inputs + 1])
  /\ inputs' = inputs + 1
  /\ UNCHANGED <<keypad_buf, tty_queue, pc, cur, flushed, applied>>
  /\ UNCHANGED <<active_screen, value, active, screen_asleep, selected_stops,
                 active_stops, prev_active_stops, piston, reed_cutoff,
                 piston_settings, user_settings, cmd, sent, display, saved,
                 logged, running, engine_stops, engine_toggle>>
  /\ UNCHANGED codec_vars

\* read_arrow_keys has read the three bytes of a key and puts them; like
\* every task it runs only while main() waits in tty_queue.get()
ReadKey ==
  /\ pc = "loop"
  /\ cmd = NoCmd
  /\ keypad_buf # <<>>
  /\ tty_queue' = queue_put(tty_queue, "keypad", Head(keypad_buf))
  /\ keypad_buf' = Tail(keypad_buf)
  /\ UNCHANGED <<reg_buf, pc, cur, flushed, applied, inputs>>
  /\ UNCHANGED <<active_screen, value, active, screen_asleep, selected_stops,
                 active_stops, prev_active_stops, piston, reed_cutoff,
                 piston_settings, user_settings, cmd, sent, display, saved,
                 logged, running, engine_stops, engine_toggle>>
  /\ UNCHANGED codec_vars

\* read_arrow_keys: read_async returned b'' (no byte for `timeout` seconds)
\* and b'sleep\n' is put
IdleTimeout ==
  /\ pc = "loop"
  /\ cmd = NoCmd
  /\ keypad_buf = <<>>
  /\ inputs < MaxInputs
  /\ tty_queue' =
       queue_put(tty_queue, "keypad",
                 [cmd |-> SleepCmd, during_wait |-> FALSE, a |-> inputs + 1])
  /\ inputs' = inputs + 1
  /\ UNCHANGED <<keypad_buf, reg_buf, pc, cur, flushed, applied>>
  /\ UNCHANGED <<active_screen, value, active, screen_asleep, selected_stops,
                 active_stops, prev_active_stops, piston, reed_cutoff,
                 piston_settings, user_settings, cmd, sent, display, saved,
                 logged, running, engine_stops, engine_toggle>>
  /\ UNCHANGED codec_vars

\* read_reg_lines: readline_async returned a line and it is put verbatim
ReadLine ==
  /\ pc = "loop"
  /\ cmd = NoCmd
  /\ reg_buf # <<>>
  /\ tty_queue' = queue_put(tty_queue, "reg", Head(reg_buf))
  /\ reg_buf' = Tail(reg_buf)
  /\ UNCHANGED <<keypad_buf, pc, cur, flushed, applied, inputs>>
  /\ UNCHANGED <<active_screen, value, active, screen_asleep, selected_stops,
                 active_stops, prev_active_stops, piston, reed_cutoff,
                 piston_settings, user_settings, cmd, sent, display, saved,
                 logged, running, engine_stops, engine_toggle>>
  /\ UNCHANGED codec_vars

\* `cmd = await tty_queue.get()` returns the oldest item and the iteration
\* runs on it: to its end, or into the blocking receive of wait_for_ready
Get ==
  /\ running
  /\ pc = "loop"
  /\ cmd = NoCmd
  /\ tty_queue # <<>>
  /\ \E got \in {queue_get(tty_queue)} :
       /\ tty_queue' = got.rest
       /\ cur' = got.item
       /\ applied' = Append(applied, [n |-> got.item.n, from |-> got.item.from,
                                      a |-> got.item.a])
       /\ \E nx \in {main_loop(State, got.item.cmd)} :
            IF InstrumentMessageIn(nx.sent)
              THEN \E mid \in {blocked_in_receive(State, nx)} :
                     /\ Apply(mid)
                     /\ Hear(mid.sent)
                     /\ pc' = "wait_for_ready"
              ELSE /\ Apply(nx)
                   /\ Hear(nx.sent)
                   /\ pc' = "loop"
  /\ UNCHANGED <<keypad_buf, reg_buf, flushed, inputs>>
  /\ UNCHANGED codec_vars

\* the engine sends GRANDORGUE_READY: receive() returns, the keypad's input
\* buffer is reset and the iteration runs to its end
Ready ==
  /\ pc = "wait_for_ready"
  /\ \E nx \in {resume(State)} :
       /\ Apply(nx)
       /\ Hear(SubSeq(nx.sent, Len(sent) + 1, Len(nx.sent)))
  /\ keypad_buf' = reset_input_buffer(keypad_buf)
  /\ flushed' = keypad_buf
  /\ pc' = "loop"
  /\ UNCHANGED <<reg_buf, tty_queue, cur, applied, inputs>>
  /\ UNCHANGED codec_vars

\* the loop is back at `await tty_queue.get()`
AwaitGet ==
  /\ running
  /\ pc = "loop"
  /\ cmd # NoCmd
  /\ cmd' = NoCmd
  /\ sent' = <<>>
  /\ display' = <<>>
  /\ saved' = FALSE
  /\ logged' = FALSE
  /\ prev_active_stops' = active_stops
  /\ cur' = NoItem
  /\ flushed' = <<>>
  /\ UNCHANGED <<active_screen, value, active, screen_asleep, selected_stops,
                 active_stops, piston, reed_cutoff, piston_settings,
                 user_settings, running, engine_stops, engine_toggle>>
  /\ UNCHANGED <<keypad_buf, reg_buf, tty_queue, pc, applied, inputs>>
  /\ UNCHANGED codec_vars

NextQueue ==
  KeyTyped \/ LineArrives \/ ReadKey \/ IdleTimeout \/ ReadLine \/ Get
    \/ Ready \/ AwaitGet

SpecQueue == Init /\ [][NextQueue]_vars

(* ----------------- the codec applied to every input ------------------ *)

\* the values a 16-bit two's-complement word holds: [-32768, 32767]
Values == (0 - wraparound \div 2)..(wraparound \div 2 - 1)

\* an event kind and a value are chosen
InitCodec ==
  /\ active_screen = "instrument"
  /\ value = default
  /\ active = [s \in IntSelects \cup OnOffSelects |-> FALSE]
  /\ screen_asleep = FALSE
  /\ selected_stops = {}
  /\ active_stops = {}
  /\ prev_active_stops = {}
  /\ piston = None
  /\ reed_cutoff = FALSE
  /\ piston_settings = stored_at_startup
  /\ user_settings = stored_at_startup
  /\ cmd = NoCmd
  /\ sent = <<>>
  /\ display = <<>>
  /\ saved = FALSE
  /\ logged = FALSE
  /\ running = TRUE
  /\ engine_stops = {}
  /\ engine_toggle = [t \in OnOffSelects |-> FALSE]
  /\ keypad_buf = <<>>
  /\ reg_buf = <<>>
  /\ tty_queue = <<>>
  /\ pc = "loop"
  /\ cur = NoItem
  /\ flushed = <<>>
  /\ applied = <<>>
  /\ inputs = 0
  /\ codec_in \in [event : DOMAIN event_code, value : Values]
  /\ codec_out = <<>>

\* midi_message is called on the chosen input
Encode ==
  /\ codec_out = <<>>
  /\ codec_out' = midi_message(codec_in.event, codec_in.value)
  /\ UNCHANGED codec_in
  /\ UNCHANGED <<active_screen, value, active, screen_asleep, selected_stops,
                 active_stops, prev_active_stops, piston, reed_cutoff,
                 piston_settings, user_settings, cmd, sent, display, saved,
                 logged, running, engine_stops, engine_toggle>>
  /\ UNCHANGED queue_vars

NextCodec == Encode

SpecCodec == InitCodec /\ [][NextCodec]_vars

\* `cmd = await tty_queue.get()` returns c and the iteration runs on it, up
\* to the end of the loop body
Step(c) ==
  /\ running
  /\ cmd = NoCmd
  /\ \E nx \in {main_loop(State, c)} :
       /\ Explored(nx)
       /\ Apply(nx)
       /\ Hear(nx.sent)
  /\ UNCHANGED queue_vars
  /\ UNCHANGED codec_vars

\* the loop is back at `await tty_queue.get()`: the locals of the finished
\* iteration are dead and its outputs have left the process
AwaitNext ==
  /\ running
  /\ pc = "loop"
  /\ cmd # NoCmd
  /\ cmd' = NoCmd
  /\ sent' = <<>>
  /\ display' = <<>>
  /\ saved' = FALSE
  /\ logged' = FALSE
  /\ prev_active_stops' = active_stops
  /\ UNCHANGED <<active_screen, value, active, screen_asleep, selected_stops,
                 active_stops, piston, reed_cutoff, piston_settings,
                 user_settings, running, engine_stops, engine_toggle>>
  /\ UNCHANGED queue_vars
  /\ UNCHANGED codec_vars

SleepEvent == Step(SleepCmd)

KeyPress == \E c \in KeyCmds : Step(c)

RegisterLine == \E c \in RegLines : Step(c)

Next == SleepEvent \/ KeyPress \/ RegisterLine \/ AwaitNext

Spec == Init /\ [][Next]_vars


(* ======================= the claims of the spec ======================= *)

SymDiff(A, B) == (A \ B) \cup (B \ A)

\* the note_on/note_off messages among msgs, call by call
NoteChunks(msgs) == SelectSeq(msgs, LAMBDA m : m.type = "notes")

\* one note_on per stop that became active and one note_off per stop that
\* ceased to be, nothing when no stop changed
Delta(before, after) ==
  IF SymDiff(before, after) = {} THEN <<>>
  ELSE <<Notes(after \ before, before \ after)>>

\* an instrument message was sent in the last event cycle
InstrumentChanged ==
  \E i \in 1..Len(sent) : sent[i].type = "sysex" /\ sent[i].event = "INSTRUMENT"

\* the escape sequence of a key
KeyCmd(key) == CHOOSE c \in KeyCmds : keymap[c] = key

(* C1, as stated: in every event cycle, whatever the event, the note       *)
(* messages sent are exactly one per stop of the symmetric difference of   *)
(* the active stops before and after the event, and none for a stop whose  *)
(* membership did not change.                                              *)
C1_DeltaOnly == NoteChunks(sent) = Delta(prev_active_stops, active_stops)

(* C1, amended: the note messages of an event cycle are exactly one per    *)
(* stop of the symmetric difference of the active stops before and after   *)
(* the event, except that a cycle whose edit changes the instrument first  *)
(* sends a note_on for every stop that was active before the event,        *)
(* changed or not.                                                         *)
C1_DeltaAfterResend ==
  NoteChunks(sent) =
    (IF InstrumentChanged THEN Delta({}, prev_active_stops) ELSE <<>>)
      \o Delta(prev_active_stops, active_stops)

\* a cycle that switched some stops while another stop stayed active, and
\* sent messages for the switched stops only
C1_Witness ==
  /\ cmd # NoCmd
  /\ ~InstrumentChanged
  /\ prev_active_stops \cap active_stops # {}
  /\ prev_active_stops \ active_stops # {}
  /\ sent = <<Notes(active_stops \ prev_active_stops,
                    prev_active_stops \ active_stops)>>

(* C2: whenever the reed-cutoff flag is true, no reed stop is active,      *)
(* whatever is selected, whichever piston is current and whatever the      *)
(* piston memory holds.                                                    *)
C2_ReedCutoff == reed_cutoff => active_stops \cap reed_stops = {}

\* cutoff is on while the current piston's stored combination holds a reed
\* stop, at the end of a cycle
C2_Witness ==
  /\ cmd # NoCmd
  /\ reed_cutoff
  /\ piston # manual_piston
  /\ piston \in DOMAIN piston_settings
  /\ piston_settings[piston] \cap reed_stops # {}
  /\ piston_settings[piston] \ reed_stops # {}


\* the organ's configuration and the stops told to the engine
OrganUnchanged ==
  UNCHANGED <<selected_stops, piston, reed_cutoff, piston_settings,
              active_stops>>

(* C3, as stated: processing a malformed register line, whichever of its   *)
(* tokens is the malformed one, leaves the selected stops, the piston, the *)
(* reed-cutoff flag, the piston memory and the active stops as they were.  *)
C3_MalformedChangesNothing ==
  [][cmd' \in MalformedLines => OrganUnchanged]_vars

C5_ReedsOnSetsCutoff == cmd = ReedsOn => reed_cutoff

(* C5, amended: after a valid `reeds on` line is processed the reed-cutoff *)
(* flag is false, whatever malformed lines were processed before it.       *)
C5_ReedsOnClearsCutoff == cmd = ReedsOn => ~reed_cutoff

\* `reeds on` has just ended a cutoff: the flag is false and the reed stops
\* that the cutoff had silenced sound again
C5_Witness ==
  /\ cmd = ReedsOn
  /\ ~reed_cutoff
  /\ active_stops \ prev_active_stops # {}
  /\ active_stops \ prev_active_stops \subseteq reed_stops

\* the active stops as section 4.4 of the spec defines them
ReferenceActive(selected, p, memory, cutoff, reeds) ==
  LET base == IF p = None THEN selected
              ELSE IF p = manual_piston THEN selected
              ELSE IF p \notin DOMAIN memory THEN selected
              ELSE memory[p]
  IN {x \in base : ~(cutoff /\ x \in reeds)}

(* C6: after every event cycle the active stops are the reference function *)
(* of the selected stops, the piston, the piston memory, the cutoff flag   *)
(* and the reed stops: the selection when no piston is selected, the       *)
(* piston is the manual one or it has no snapshot, else the snapshot, less *)
(* the reed stops under cutoff; and a `piston` line sends messages for     *)
(* exactly the stops by which the two sets differ.                         *)
C6_ActiveIsReference ==
  /\ active_stops = ReferenceActive(selected_stops, piston, piston_settings,
                                    reed_cutoff, reed_stops)
  /\ StartsWith(cmd, "piston") =>
       NoteChunks(sent) = Delta(prev_active_stops, active_stops)

\* a `piston` line has just recalled a snapshot that holds the selected
\* stops and more: the active stops are the snapshot and only the added
\* stops got a note_on
C6_Witness ==
  /\ StartsWith(cmd, "piston")
  /\ piston \in DOMAIN piston_settings
  /\ piston # manual_piston
  /\ ~reed_cutoff
  /\ selected_stops # {}
  /\ prev_active_stops = selected_stops
  /\ active_stops = piston_settings[piston]
  /\ sent = <<Notes(piston_settings[piston] \ selected_stops, {})>>

(* C7: the value of every Value Selector stays within [minimum, maximum]   *)
(* in every reachable state; an edit beyond a bound leaves it at the bound. *)
C7_ValueInRange ==
  \A s \in IntSelects : minimum[s] <= value[s] /\ value[s] <= maximum[s]

\* LEFT has just been processed by a selector in editing mode whose value
\* is its minimum: the value stayed, nothing was sent and nothing redrawn
C7_Witness ==
  /\ cmd = KeyCmd("LEFT")
  /\ active_screen \in IntSelects
  /\ active[active_screen]
  /\ value[active_screen] = minimum[active_screen]
  /\ sent = <<>>
  /\ display = <<>>

\* well-formed stop lines beyond those the model lets arrive, among them
\* lines that name one stop twice
IdempotenceLines ==
  WellFormedStopLines
    \cup { StopLine("on", W("1")) \o <<W("off"), W("1")>>,
           StopLine("off", W("1")) \o <<W("on"), <<"1", "2">>>>,
           StopLine("off", <<"2", "1">>) \o <<W("on"), W("2")>> }

(* C8: applying the same well-formed stop line twice in a row gives the    *)
(* same selected stops as applying it once, from every selected set the    *)
(* loop can hold when it waits for a command.                              *)
C8_Idempotent ==
  cmd = NoCmd =>
    \A c \in IdempotenceLines :
      LET once  == update_stop_selection(c, selected_stops)
          twice == update_stop_selection(c, once.selected_stops)
      IN /\ ~once.raised
         /\ ~twice.raised
         /\ twice.selected_stops = once.selected_stops

\* `stop on 1` has just been processed although stop 1 was already selected
\* and sounding: the line changed nothing and no message was sent
C8_Witness ==
  /\ cmd = StopLine("on", W("1"))
  /\ piston = None
  /\ ~reed_cutoff
  /\ 1 \in prev_active_stops
  /\ selected_stops = prev_active_stops
  /\ sent = <<>>

(* C9: a recognized key dequeued while the screen is asleep only clears    *)
(* the asleep flag and redraws the current screen; it is not forwarded to  *)
(* the screen: the current screen, every value and editing/active flag,    *)
(* the organ's configuration and the active stops stay as they were and no *)
(* message is sent.                                                        *)
C9_KeyOnlyWakes ==
  [][screen_asleep /\ cmd' \in KeyCmds =>
       /\ ~screen_asleep'
       /\ display' # <<>>
       /\ \A i \in 1..Len(display') :
            display'[i].what = "redraw" /\ display'[i].screen = active_screen
       /\ sent' = <<>>
       /\ ~saved'
       /\ UNCHANGED <<active_screen, value, active, user_settings>>
       /\ OrganUnchanged]_vars

\* DOWN has just woken the screen on a selector that is still in browsing
\* mode: the key redrew the screen and was not forwarded
C9_Witness ==
  /\ cmd = KeyCmd("DOWN")
  /\ ~screen_asleep
  /\ active_screen \in IntSelects \cup OnOffSelects
  /\ ~active[active_screen]
  /\ display = <<[what |-> "redraw", screen |-> active_screen, prompt |-> ""]>>
  /\ sent = <<>>

\* DOWN is dispatched to the Combination-Save screen
SaveKeyDispatched ==
  /\ cmd' = KeyCmd("DOWN")
  /\ active_screen = "piston_save"
  /\ ~screen_asleep

(* C10: the piston memory changes only when DOWN is dispatched to the      *)
(* Combination-Save screen while a piston other than the manual one is     *)
(* selected; then that piston's entry becomes the selected stops, every    *)
(* other entry stays and the memory is persisted. With no piston or the    *)
(* manual piston selected, DOWN changes no state, persists nothing and the *)
(* display shows no prompt.                                                *)
C10_SaveOnly ==
  [][/\ piston_settings' # piston_settings =>
          SaveKeyDispatched /\ piston \notin {None, manual_piston}
     /\ SaveKeyDispatched /\ piston \notin {None, manual_piston} =>
          /\ DOMAIN piston_settings' = DOMAIN piston_settings \cup {piston}
          /\ piston_settings'[piston] = selected_stops
          /\ \A q \in DOMAIN piston_settings \ {piston} :
               piston_settings'[q] = piston_settings[q]
          /\ saved'
          /\ user_settings' = piston_settings'
     /\ SaveKeyDispatched /\ piston \in {None, manual_piston} =>
          /\ ~saved'
          /\ sent' = <<>>
          /\ \A i \in 1..Len(display') : display'[i].prompt = ""
          /\ UNCHANGED <<active_screen, value, active, screen_asleep,
                         user_settings>>
          /\ OrganUnchanged
     /\ ~saved' => user_settings' = user_settings]_vars

\* a save has just stored a non-empty selection under piston P1, beside the
\* entries the memory already held, and the file holds the same
C10_Witness ==
  /\ cmd = KeyCmd("DOWN")
  /\ saved
  /\ piston = "P1"
  /\ selected_stops # {}
  /\ piston_settings["P1"] = selected_stops
  /\ DOMAIN stored_at_startup \subseteq DOMAIN piston_settings
  /\ \A q \in DOMAIN stored_at_startup : piston_settings[q] = stored_at_startup[q]
  /\ user_settings = piston_settings


\* the step is one whole iteration of the main loop
CycleStep == cmd = NoCmd /\ cmd' # NoCmd

(* C13: an event cycle that changes the instrument leaves temperament,     *)
(* metronome bpm and metronome division at their defaults, and leaves the  *)
(* transposition value, both toggles' states, the selected stops, the      *)
(* current piston, the reed-cutoff flag and the piston memory as they      *)
(* were before it.                                                         *)
C13_ReloadResets ==
  [][CycleStep /\ InstrumentMessageIn(sent') =>
       /\ \A s \in {"temperament", "met_bpm", "met_div"} :
            value'[s] = default[s]
       /\ value'["instrument"] # value["instrument"]
       /\ value'["transpose"] = value["transpose"]
       /\ active' = active
       /\ selected_stops' = selected_stops
       /\ piston' = piston
       /\ reed_cutoff' = reed_cutoff
       /\ piston_settings' = piston_settings
       /\ user_settings' = user_settings]_vars

\* the instrument was changed while the organ was transposed, stops were
\* selected and a piston was pressed
C13_Witness ==
  /\ InstrumentChanged
  /\ value["transpose"] # default["transpose"]
  /\ value["temperament"] = default["temperament"]
  /\ selected_stops # {}
  /\ piston # None

\* the screen is a selector in editing mode or an active toggle
InSubState(s) == s \in DOMAIN active /\ active[s]

\* the key moves the current screen: LEFT or RIGHT, awake, current screen in
\* browsing mode, not at that end of the chain
Navigates(c) ==
  /\ ~screen_asleep
  /\ ~InSubState(active_screen)
  /\ \/ c = KeyCmd("LEFT") /\ active_screen # chain[1]
     \/ c = KeyCmd("RIGHT") /\ active_screen # chain[Len(chain)]

\* the neighbour in the chain, on the side LEFT or RIGHT points to
ChainNeighbour(s, c) ==
  LET i == CHOOSE j \in 1..Len(chain) : chain[j] = s
  IN IF c = KeyCmd("LEFT") THEN chain[i - 1] ELSE chain[i + 1]

(* C16: an event cycle changes the current screen only when its event is   *)
(* LEFT or RIGHT, the display is awake, the current screen is neither a    *)
(* selector in editing mode nor an active toggle, and the chain has a      *)
(* neighbour on that side; the current screen is then that neighbour. In   *)
(* every other cycle the current screen stays.                             *)
C16_NavigationOnly ==
  [][CycleStep =>
       IF Navigates(cmd')
         THEN active_screen' = ChainNeighbour(active_screen, cmd')
         ELSE active_screen' = active_screen]_vars

\* RIGHT was pressed on the last screen of the chain, awake: nothing is drawn
C16_Witness ==
  /\ cmd = KeyCmd("RIGHT")
  /\ active_screen = chain[Len(chain)]
  /\ ~InSubState(active_screen)
  /\ display = <<>>

\* the enter and exit messages for toggle t among msgs, in order
ToggleMessages(t, msgs) ==
  SelectSeq(msgs, LAMBDA m : m.type = "sysex" /\ m.event \in {on_msg[t], off_msg[t]})

(* C17: for each toggle, an enter message is sent only when the last       *)
(* message sent for it was not an enter (none yet, or an exit), an exit    *)
(* message only when the last one was an enter, at most one of them in a   *)
(* cycle, and after every step the toggle is active exactly when the last  *)
(* message sent for it was an enter.                                       *)
C17_ToggleAlternates ==
  [][\A t \in OnOffSelects :
       /\ CycleStep =>
            LET msgs == ToggleMessages(t, sent') IN
              /\ Len(msgs) <= 1
              /\ \A i \in 1..Len(msgs) :
                   IF msgs[i].event = on_msg[t]
                     THEN ~engine_toggle[t]
                     ELSE engine_toggle[t]
       /\ active'[t] <=> engine_toggle'[t]]_vars

\* DOWN was pressed on a toggle that was already active: nothing was sent
\* and the last message is still the enter
C17_Witness ==
  /\ cmd = KeyCmd("DOWN")
  /\ active_screen \in OnOffSelects
  /\ active[active_screen]
  /\ engine_toggle[active_screen]
  /\ sent = <<>>
  /\ display = <<>>

(* C19: at the end of every event cycle, and between cycles, the stops     *)
(* whose last message was a note_on (a stop never messaged being off) are  *)
(* exactly the active stops.                                               *)
C19_EngineAgrees == engine_stops = active_stops

\* an instrument reload resent the active stops while the engine had them on
C19_Witness ==
  /\ InstrumentChanged
  /\ active_stops # {}
  /\ NoteChunks(sent) = <<Notes(active_stops, {})>>
  /\ engine_stops = active_stops

(* C20: every screen other than the current one has its active flag        *)
(* false; hence the recorder and the metronome are never active together,  *)
(* and no cycle changes the instrument while one of them is active.        *)
C20_OnlyCurrentActive ==
  /\ \A s \in DOMAIN active : s # active_screen => ~active[s]
  /\ ~(active["recorder"] /\ active["met"])
  /\ InstrumentChanged => ~active["recorder"] /\ ~active["met"]

\* RIGHT was pressed while the recorder was running: the recorder screen
\* stays current
C20_Witness ==
  /\ cmd = KeyCmd("RIGHT")
  /\ active_screen = "recorder"
  /\ active["recorder"]
  /\ display = <<>>


\* the number a string of hexadecimal digits denotes (-1 when a character
\* is not a hexadecimal digit)
RECURSIVE HexValue(_)
HexValue(chars) ==
  IF chars = <<>> THEN 0
  ELSE LET c == chars[Len(chars)]
           rest == HexValue(SubSeq(chars, 1, Len(chars) - 1))
       IN IF rest < 0 \/ ~\E d \in 1..16 : HexDigits[d] = c THEN -1
          ELSE 16 * rest + (CHOOSE d \in 1..16 : HexDigits[d] = c) - 1

\* the event kind and the signed 16-bit value a payload denotes
Decode(payload) ==
  LET code == HexValue(SubSeq(payload, 17, 20))
      v16  == HexValue(SubSeq(payload, 21, 24))
  IN [event |-> CHOOSE e \in DOMAIN event_code : event_code[e] = code,
      value |-> IF v16 >= wraparound \div 2 THEN v16 - wraparound ELSE v16]

(* C14: for every event kind and every value in [-32768, 32767] the        *)
(* payload of midi_message is the 16 characters of the tag, then the       *)
(* event code as exactly 4 hexadecimal digits, then the value modulo 2^16  *)
(* (v + 0x10000 for a negative v) as exactly 4 hexadecimal digits; the     *)
(* event kind and the value are recovered from the payload alone, so two   *)
(* different pairs never give the same payload.                            *)
C14_Encoding ==
  codec_out # <<>> =>
    /\ Len(codec_out) = 24
    /\ SubSeq(codec_out, 1, 16) = Tag
    /\ HexValue(SubSeq(codec_out, 17, 20)) = event_code[codec_in.event]
    /\ HexValue(SubSeq(codec_out, 21, 24)) = codec_in.value % wraparound
    /\ Decode(codec_out) = codec_in

\* a negative value was encoded by its 16-bit wraparound
C14_Witness ==
  /\ codec_in.value = -11
  /\ codec_in.event = "TRANSPOSE"
  /\ codec_out = Tag \o <<"0", "0", "0", "1">> \o <<"f", "f", "f", "5">>


\* the step is `cmd = await tty_queue.get()` and what the iteration does on
\* the item got, up to its end or up to the blocking receive
GetStep == cmd = NoCmd /\ cmd' # NoCmd

\* the step ends the wait for the engine-ready message
ReadyStep == pc = "wait_for_ready" /\ pc' = "loop"

(* C11, as stated: no key press and no register line that arrived while    *)
(* the controller waited for the engine-ready message is applied to the    *)
(* screens, the selected stops, the piston or the reed-cutoff flag after   *)
(* the wait.                                                               *)
C11_WaitInputIgnored ==
  [][GetStep /\ cur'.during_wait =>
       UNCHANGED <<active_screen, value, active, selected_stops, piston,
                   reed_cutoff>>]_vars

(* C11, amended: the key presses waiting in the keypad's input buffer      *)
(* when the engine-ready message arrives are discarded, so that no key     *)
(* typed during the wait is ever dequeued; the register device's buffer    *)
(* and the queue are left as they are, and a register line that arrived    *)
(* during the wait is dequeued and applied after it.                       *)
C11_WaitKeysDiscarded ==
  [][/\ ReadyStep =>
          /\ keypad_buf' = <<>>
          /\ flushed' = keypad_buf
          /\ reg_buf' = reg_buf
          /\ tty_queue' = tty_queue
     /\ GetStep /\ cur'.from = "keypad" => ~cur'.during_wait
     /\ GetStep /\ cur'.during_wait /\ StartsWith(cmd', "stop") =>
          selected_stops' = update_stop_selection(cmd', selected_stops).selected_stops
    ]_vars

\* the wait has ended and a key typed during it was discarded, while a line
\* that arrived during it is still in the register device's buffer
C11_Witness ==
  /\ pc = "loop"
  /\ InstrumentChanged
  /\ \E i \in 1..Len(flushed) : flushed[i].during_wait
  /\ \E i \in 1..Len(reg_buf) : reg_buf[i].during_wait

(* C12: the items are dequeued in the order they were put (the i-th item   *)
(* got is the i-th item put), two items of the same reader task are        *)
(* dequeued in the order they arrived at its device, an item is dequeued   *)
(* only when the iteration of the one before has ended, and no item is     *)
(* dequeued while an iteration waits for the engine-ready message.         *)
C12_QueueOrder ==
  [][/\ \A i \in 1..Len(applied') : applied'[i].n = i
     /\ \A i, j \in 1..Len(applied') :
          i < j /\ applied'[i].from = applied'[j].from
            => applied'[i].a < applied'[j].a
     /\ applied' # applied =>
          /\ pc = "loop" /\ cmd = NoCmd /\ sent = <<>> /\ display = <<>>
          /\ Len(applied') = Len(applied) + 1
          /\ cmd' = cur'.cmd
     /\ pc = "wait_for_ready" => applied' = applied /\ cmd' = cmd
    ]_vars

\* two items were queued together, a line put before a key that had
\* arrived earlier, and the line was dequeued first
C12_Witness ==
  /\ cmd # NoCmd
  /\ Len(applied) = 2
  /\ applied[1].from = "reg"
  /\ applied[2].from = "keypad"
  /\ applied[2].a < applied[1].a
  /\ tty_queue # <<>>

(* C15: an iteration that changes the instrument value sends the           *)
(* instrument message and then waits: until the ready message arrives      *)
(* nothing is sent, nothing is dequeued and the state stays; when it       *)
(* arrives the reload-sensitive screens are at their defaults and a        *)
(* note_on is sent for every active stop, the active set being what it     *)
(* was. An iteration that leaves the instrument value as it is (an edit    *)
(* at a bound among them) sends no instrument message and does not wait.   *)
C15_ReloadSequence ==
  [][/\ GetStep =>
          IF value'["instrument"] # value["instrument"]
            THEN /\ pc' = "wait_for_ready"
                 /\ sent' = <<Sysex("INSTRUMENT", value'["instrument"])>>
                 /\ \A s \in IntSelects \ {"instrument"} : value'[s] = value[s]
            ELSE /\ pc' = "loop"
                 /\ ~InstrumentMessageIn(sent')
                 /\ \A i \in 1..Len(sent') : sent'[i] # ReadyReceived
     /\ pc = "wait_for_ready" =>
          IF pc' = "wait_for_ready"
            THEN UNCHANGED <<cmd, sent, cur, applied, tty_queue, value, active,
                             active_screen, selected_stops, active_stops,
                             piston, reed_cutoff, engine_stops>>
            ELSE /\ sent' = sent \o <<ReadyReceived>> \o Delta({}, active_stops')
                 /\ active_stops' = active_stops
                 /\ \A s \in {"temperament", "met_bpm", "met_div"} :
                      value'[s] = default[s]
                 /\ UNCHANGED <<cmd, cur, applied, tty_queue>>
    ]_vars

\* the instrument was changed while a stop was active: the instrument
\* message, the ready message, then the note_on of the active stop
C15_Witness ==
  /\ pc = "loop"
  /\ active_stops # {}
  /\ sent = <<Sysex("INSTRUMENT", value["instrument"]), ReadyReceived,
              Notes(active_stops, {})>>

\* two empty lines were written to the display
BlankDrawn ==
  \E i \in 1..Len(display) : display[i].what = "blank"

(* C18, as stated: the asleep flag is set and the display blanked only in  *)
(* the iteration of an idle timeout of the keypad, and a line read from    *)
(* the register device, whatever its text, is dispatched neither as the    *)
(* sleep event nor as a key press.                                         *)
C18_SleepDistinguished ==
  cmd # NoCmd =>
    /\ screen_asleep /\ BlankDrawn => cur.from = "keypad"
    /\ cur.from = "reg" => cmd # SleepCmd /\ cmd \notin DOMAIN keymap

=============================================================================
